---- MODULE Spec2Model ----
(***************************************************************************)
(* Model of the answer ledger, the tag statistics and the weak-area        *)
(* selection of Sisters-AWS-Coach (src/src/database.py,                    *)
(* src/src/question_generator.py), and of the quiz session that feeds them *)
(* (src/src/app.py).                                                       *)
(*                                                                         *)
(* The SQLite tables are the variables users, answer_history,              *)
(* sqlite_sequence (the AUTOINCREMENT counter of answer_history) and       *)
(* weakness_summary.  They hold the COMMITTED content of the database,     *)
(* which is what every other connection reads.  A REAL column is kept as   *)
(* the exact quotient <<numerator, denominator>> the SQL computes; for the *)
(* small counts of the model two such quotients compare exactly as their   *)
(* IEEE doubles do (distinct quotients with denominators below 2^26 never  *)
(* round to the same double, and a threshold literal such as 0.6 is the    *)
(* double nearest to 3/5, which is also what 3.0/5 evaluates to).          *)
(***************************************************************************)
EXTENDS Integers, Sequences, FiniteSets, TLC

VARIABLES
    users,              \* table users: the set of ids
    answer_history,     \* table answer_history: the rows in rowid order
    sqlite_sequence,    \* AUTOINCREMENT: largest rowid ever committed
    weakness_summary,   \* table weakness_summary: (user_id, tag) -> row
    procs,              \* per caller: the record_answer call in progress
    lock,               \* the connection's owner holding SQLite's write lock
    returned,           \* the record_answer calls that returned, in commit order
    ret,                \* what the last completed operation returned
    session             \* st.session_state of the one browser session

vars == <<users, answer_history, sqlite_sequence, weakness_summary,
          procs, lock, returned, ret, session>>

tables == <<users, answer_history, sqlite_sequence, weakness_summary>>

(***************************************************************************)
(* Input domains and bounds.                                               *)
(***************************************************************************)
Users == {"u1", "u2"}
Tags == {"EC2", "S3"}
Procs == {"p1", "p2"}
NoProc == "none"
NoUser == ""

\* Tag lists a caller passes to record_answer: the list comes from the
\* question (app.py 183-185) and is not validated, so it may be empty or
\* repeat a tag.
TagLists == {<< >>, <<"EC2">>, <<"S3">>, <<"EC2", "S3">>, <<"EC2", "EC2">>}

MaxEvents == 3

Min(a, b) == IF a < b THEN a ELSE b

Range(s) == {s[i] : i \in 1..Len(s)}

\* a < b and a = b for quotients <<n, d>> with d > 0
Less(a, b) == a[1] * b[2] < b[1] * a[2]
Same(a, b) == a[1] * b[2] = b[1] * a[2]

(***************************************************************************)
(* record_answer, statement by statement.                                  *)
(***************************************************************************)
\* get_or_create_user: SELECT, then INSERT when there is no row
GetOrCreateUser(us, user_id) == us \cup {user_id}

\* Mutant of InsertHistory: INSERT OR REPLACE on the newest rowid, so that
\* the last recorded row is overwritten.
InsertHistory_ReplaceLast(ah, seqno, user_id, character, tags, is_correct) ==
    IF ah = << >>
    THEN <<[id |-> seqno + 1, user_id |-> user_id, character |-> character,
            tags |-> tags, is_correct |-> is_correct]>>
    ELSE [ah EXCEPT ![Len(ah)] =
            [id |-> seqno + 1, user_id |-> user_id, character |-> character,
             tags |-> tags, is_correct |-> is_correct]]

\* INSERT INTO answer_history ...; cursor.lastrowid
InsertHistory(ah, seqno, user_id, character, tags, is_correct) ==
    Append(ah, [id |-> seqno + 1, user_id |-> user_id, character |-> character,
                tags |-> tags, is_correct |-> is_correct])

\* Mutant of Inc: the wrong answers are the ones counted.
Inc_Negated(is_correct) == IF is_correct THEN 0 ELSE 1

\* 1 if is_correct else 0
Inc(is_correct) == IF is_correct THEN 1 ELSE 0

\* Mutant of UpsertRow: accuracy_rate is set from the stored correct_count,
\* without the increment of this answer.
UpsertRow_StaleAccuracy(ws, user_id, tag, is_correct) ==
    LET k == <<user_id, tag>> IN
    IF k \in DOMAIN ws
    THEN [ws EXCEPT ![k] =
            [total_count   |-> ws[k].total_count + 1,
             correct_count |-> ws[k].correct_count + Inc(is_correct),
             accuracy_rate |-> <<ws[k].correct_count, ws[k].total_count + 1>>]]
    ELSE [x \in DOMAIN ws \cup {k} |->
            IF x = k
            THEN [total_count   |-> 1,
                  correct_count |-> Inc(is_correct),
                  accuracy_rate |-> <<Inc(is_correct), 1>>]
            ELSE ws[x]]

\* Mutant of UpsertRow: the conflict target is the tag alone, so the update
\* reaches the rows of every user that has the tag.
UpsertRow_AnyUser(ws, user_id, tag, is_correct) ==
    LET k == <<user_id, tag>>
        hit == {x \in DOMAIN ws : x[2] = tag}
    IN
    IF hit # {}
    THEN [x \in DOMAIN ws |->
            IF x \in hit
            THEN [total_count   |-> ws[x].total_count + 1,
                  correct_count |-> ws[x].correct_count + Inc(is_correct),
                  accuracy_rate |-> <<ws[x].correct_count + Inc(is_correct),
                                      ws[x].total_count + 1>>]
            ELSE ws[x]]
    ELSE [x \in DOMAIN ws \cup {k} |->
            IF x = k
            THEN [total_count   |-> 1,
                  correct_count |-> Inc(is_correct),
                  accuracy_rate |-> <<Inc(is_correct), 1>>]
            ELSE ws[x]]

\* INSERT INTO weakness_summary ... ON CONFLICT(user_id, tag) DO UPDATE SET ...
\* The right-hand sides of SET read the row as it was before the statement.
UpsertRow(ws, user_id, tag, is_correct) ==
    LET k == <<user_id, tag>> IN
    IF k \in DOMAIN ws
    THEN [ws EXCEPT ![k] =
            [total_count   |-> ws[k].total_count + 1,
             correct_count |-> ws[k].correct_count + Inc(is_correct),
             accuracy_rate |-> <<ws[k].correct_count + Inc(is_correct),
                                 ws[k].total_count + 1>>]]
    ELSE [x \in DOMAIN ws \cup {k} |->
            IF x = k
            THEN [total_count   |-> 1,
                  correct_count |-> Inc(is_correct),
                  accuracy_rate |-> <<Inc(is_correct), 1>>]
            ELSE ws[x]]

\* for tag in tags: <upsert>
RECURSIVE UpsertAll(_, _, _, _)
UpsertAll(ws, user_id, tags, is_correct) ==
    IF tags = << >> THEN ws
    ELSE UpsertAll(UpsertRow(ws, user_id, Head(tags), is_correct),
                   user_id, Tail(tags), is_correct)

(***************************************************************************)
(* record_answer run to its commit with no other connection active.        *)
(***************************************************************************)
RecordAnswer(user_id, character, tags, is_correct) ==
    /\ users' = GetOrCreateUser(users, user_id)
    /\ answer_history' = InsertHistory(answer_history, sqlite_sequence,
                                       user_id, character, tags, is_correct)
    /\ sqlite_sequence' = sqlite_sequence + 1
    /\ weakness_summary' = UpsertAll(weakness_summary, user_id, tags, is_correct)
    /\ ret' = [op |-> "record_answer", answer_id |-> sqlite_sequence + 1]
    /\ UNCHANGED <<procs, lock, returned, session>>

(***************************************************************************)
(* record_answer as the statements of one caller among several.  Each      *)
(* caller has its own connections.  SQLite gives the write lock to one     *)
(* connection at a time, from its first INSERT to its commit or rollback;  *)
(* what it wrote is in its working copy w until the commit publishes it.   *)
(* A statement that cannot get the lock waits, and raises when its busy    *)
(* timeout runs out (Fail).                                                *)
(***************************************************************************)
NoWork == [answer_history |-> << >>, sqlite_sequence |-> 0, weakness_summary |-> << >>]

\* conns counts the connections the caller has open (get_connection entered
\* and not yet left)
IdleProc ==
    [pc |-> "idle", user_id |-> NoUser, character |-> "", tags |-> << >>,
     is_correct |-> FALSE, i |-> 0, w |-> NoWork, conns |-> 0]

\* Mutant of CloseConnection: the connection is left open.
CloseConnection_Leaked(conns) == conns

\* finally: conn.close()
CloseConnection(conns) == conns - 1

Committed ==
    [answer_history |-> answer_history, sqlite_sequence |-> sqlite_sequence,
     weakness_summary |-> weakness_summary]

\* Mutant of Publish: the AUTOINCREMENT counter is not written back.
Publish_KeepsSequence(t) ==
    /\ answer_history' = t.answer_history
    /\ sqlite_sequence' = sqlite_sequence
    /\ weakness_summary' = t.weakness_summary

\* conn.commit(): the connection's tables become the database's
Publish(t) ==
    /\ answer_history' = t.answer_history
    /\ sqlite_sequence' = t.sqlite_sequence
    /\ weakness_summary' = t.weakness_summary

InCall(p) == procs[p].pc \notin {"idle", "returned", "raised"}

\* record_answer(...) is called: with get_connection() as conn, then
\* get_or_create_user(user_id) opens its own connection
Call(p, user_id, character, tags, is_correct) ==
    /\ ~InCall(p)
    /\ procs' = [procs EXCEPT ![p] =
            [pc |-> "guc_select", user_id |-> user_id, character |-> character,
             tags |-> tags, is_correct |-> is_correct, i |-> 0, w |-> NoWork,
             conns |-> 2]]
    /\ UNCHANGED <<tables, lock, returned, ret, session>>

\* SELECT * FROM users WHERE id = ?; if row: return dict(row)
GucSelect(p) ==
    /\ procs[p].pc = "guc_select"
    /\ procs' = IF procs[p].user_id \in users
                THEN [procs EXCEPT ![p].pc = "insert_history",
                                   ![p].conns = CloseConnection(@)]
                ELSE [procs EXCEPT ![p].pc = "guc_insert"]
    /\ UNCHANGED <<tables, lock, returned, ret, session>>

\* INSERT INTO users (id, display_name): takes the write lock; the primary
\* key rejects an id another connection committed since the SELECT
GucInsert(p) ==
    /\ procs[p].pc = "guc_insert"
    /\ lock = NoProc
    /\ IF procs[p].user_id \in users
       THEN /\ procs' = [procs EXCEPT ![p] = [IdleProc EXCEPT !.pc = "raised"]]
            /\ UNCHANGED lock
       ELSE /\ procs' = [procs EXCEPT ![p].pc = "guc_commit"]
            /\ lock' = p
    /\ UNCHANGED <<tables, returned, ret, session>>

\* get_or_create_user's connection commits and closes
GucCommit(p) ==
    /\ procs[p].pc = "guc_commit"
    /\ users' = GetOrCreateUser(users, procs[p].user_id)
    /\ lock' = NoProc
    /\ procs' = [procs EXCEPT ![p].pc = "insert_history",
                              ![p].conns = CloseConnection(@)]
    /\ UNCHANGED <<answer_history, sqlite_sequence, weakness_summary, returned, ret,
                 session>>

\* INSERT INTO answer_history: the connection's transaction begins
HistoryInsert(p) ==
    /\ procs[p].pc = "insert_history"
    /\ lock = NoProc
    /\ lock' = p
    /\ procs' = [procs EXCEPT ![p].pc = "upsert", ![p].i = 1, ![p].w =
            [answer_history |->
                InsertHistory(answer_history, sqlite_sequence, procs[p].user_id,
                              procs[p].character, procs[p].tags, procs[p].is_correct),
             sqlite_sequence |-> sqlite_sequence + 1,
             weakness_summary |-> weakness_summary]]
    /\ UNCHANGED <<tables, returned, ret, session>>

\* one turn of: for tag in tags
TagUpsert(p) ==
    /\ procs[p].pc = "upsert"
    /\ procs[p].i <= Len(procs[p].tags)
    /\ procs' = [procs EXCEPT ![p].i = @ + 1, ![p].w.weakness_summary =
            UpsertRow(@, procs[p].user_id, procs[p].tags[procs[p].i],
                      procs[p].is_correct)]
    /\ UNCHANGED <<tables, lock, returned, ret, session>>

\* return answer_id; conn.commit()
CommitAnswer(p) ==
    /\ procs[p].pc = "upsert"
    /\ procs[p].i > Len(procs[p].tags)
    /\ Publish(procs[p].w)
    /\ lock' = NoProc
    /\ returned' = Append(returned,
            [answer_id |-> procs[p].w.sqlite_sequence, user_id |-> procs[p].user_id,
             character |-> procs[p].character, tags |-> procs[p].tags,
             is_correct |-> procs[p].is_correct])
    /\ procs' = [procs EXCEPT ![p] = [IdleProc EXCEPT !.pc = "returned"]]
    /\ UNCHANGED <<users, ret, session>>

\* Mutant of Rollback: what the connection wrote stays in the database.
Rollback_KeepsWrites(committed, working) == working

\* except Exception: conn.rollback()
Rollback(committed, working) == committed

\* a statement or the commit raises (disk error, busy timeout): rollback, raise
Fail(p) ==
    /\ InCall(p)
    /\ IF procs[p].pc = "upsert"
       THEN Publish(Rollback(Committed, procs[p].w))
       ELSE UNCHANGED <<answer_history, sqlite_sequence, weakness_summary>>
    /\ lock' = IF lock = p THEN NoProc ELSE lock
    /\ procs' = [procs EXCEPT ![p] =
            [IdleProc EXCEPT !.pc = "raised", !.i = procs[p].i]]
    /\ UNCHANGED <<users, returned, ret, session>>

(***************************************************************************)
(* The browser session of app.py.  session holds the keys of               *)
(* st.session_state that decide which question is shown and what is        *)
(* counted; the language, the character and the explanation texts are left *)
(* out.  A question is a record: tags_kind tells whether its "tags" entry  *)
(* is a list, a single string or missing.                                  *)
(***************************************************************************)
NoAnswer == ""
Options == {"A", "B"}
SessionUser == "u1"

NoQuestion ==
    [present |-> FALSE, tags_kind |-> "absent", tags_list |-> << >>,
     tags_str |-> "", category |-> "", correct |-> ""]

\* "online_question_count": 10
OnlineQuestionCount == 10

\* init_session_state: the defaults
SessionInit ==
    [quiz_mode |-> "offline", current_question |-> 0, score |-> 0,
     total_answered |-> 0, answered |-> FALSE, selected_answer |-> NoAnswer,
     quiz_complete |-> FALSE, current_online_question |-> NoQuestion,
     online_question_count |-> OnlineQuestionCount]

Init ==
    /\ users = {}
    /\ answer_history = << >>
    /\ sqlite_sequence = 0
    /\ weakness_summary = << >>
    /\ procs = [p \in Procs |-> IdleProc]
    /\ lock = NoProc
    /\ returned = << >>
    /\ ret = [op |-> "none"]
    /\ session = SessionInit

Next ==
    /\ Len(answer_history) < MaxEvents
    /\ \E u \in Users, tags \in TagLists, c \in BOOLEAN :
          RecordAnswer(u, "Yuri", tags, c)

Spec == Init /\ [][Next]_vars

(***************************************************************************)
(* C1: every weakness_summary row has 0 <= correct_count <= total_count,   *)
(* total_count > 0, and its accuracy_rate is correct_count / total_count   *)
(* of the row's own current counts.                                        *)
(***************************************************************************)
C1_RowInvariant ==
    \A k \in DOMAIN weakness_summary :
        LET r == weakness_summary[k] IN
        /\ 0 <= r.correct_count
        /\ r.correct_count <= r.total_count
        /\ r.total_count > 0
        /\ r.accuracy_rate[2] > 0
        /\ r.accuracy_rate[1] * r.total_count = r.correct_count * r.accuracy_rate[2]

C1_Witness ==
    \E k \in DOMAIN weakness_summary :
        /\ weakness_summary[k].total_count >= 3
        /\ weakness_summary[k].correct_count = 2

(***************************************************************************)
(* The read operations.  Each is one SELECT on the committed tables; its   *)
(* operator gives the set of lists the statement may return: ORDER BY      *)
(* leaves the order of rows with equal keys to the engine.                 *)
(***************************************************************************)
\* the orderings of the set S in which no element comes after one it is
\* before; before is the set of pairs <<j, k>> with j ranked ahead of k
Perms(S) ==
    {s \in [1..Cardinality(S) -> S] :
        \A i, j \in 1..Cardinality(S) : i # j => s[i] # s[j]}
Ordered(S, before) ==
    {s \in Perms(S) : \A i, j \in 1..Len(s) : i < j => <<s[j], s[i]>> \notin before}

\* LIMIT n
Limit(s, n) == SubSeq(s, 1, Min(n, Len(s)))

\* dict(row) of SELECT tag, total_count, correct_count, accuracy_rate
RowDict(ws, k) ==
    [tag |-> k[2], total_count |-> ws[k].total_count,
     correct_count |-> ws[k].correct_count, accuracy_rate |-> ws[k].accuracy_rate]
RowDicts(ws, s) == [i \in 1..Len(s) |-> RowDict(ws, s[i])]
TagsOf(rows) == [i \in 1..Len(rows) |-> rows[i].tag]

MinSamples == 3

\* Mutant of WeakRows: no floor on total_count.
WeakRows_NoFloor(ws, user_id, threshold) ==
    {k \in DOMAIN ws :
        /\ k[1] = user_id
        /\ Less(ws[k].accuracy_rate, threshold)}

\* Mutant of WeakRows: the floor is total_count > 3.
WeakRows_StrictFloor(ws, user_id, threshold) ==
    {k \in DOMAIN ws :
        /\ k[1] = user_id
        /\ ws[k].total_count > MinSamples
        /\ Less(ws[k].accuracy_rate, threshold)}

\* WHERE user_id = ? AND total_count >= 3 AND accuracy_rate < ?
WeakRows(ws, user_id, threshold) ==
    {k \in DOMAIN ws :
        /\ k[1] = user_id
        /\ ws[k].total_count >= MinSamples
        /\ Less(ws[k].accuracy_rate, threshold)}

\* Mutant of WeakBefore: ties on accuracy_rate go to the smaller total_count.
WeakBefore_TieAscending(a, b) ==
    \/ Less(a.accuracy_rate, b.accuracy_rate)
    \/ /\ Same(a.accuracy_rate, b.accuracy_rate)
       /\ a.total_count < b.total_count

\* ORDER BY accuracy_rate ASC, total_count DESC
WeakBefore(a, b) ==
    \/ Less(a.accuracy_rate, b.accuracy_rate)
    \/ /\ Same(a.accuracy_rate, b.accuracy_rate)
       /\ a.total_count > b.total_count

get_weaknesses(ws, user_id, threshold, limit) ==
    LET sel == WeakRows(ws, user_id, threshold)
        before == {jk \in sel \X sel : WeakBefore(ws[jk[1]], ws[jk[2]])}
    IN
    {RowDicts(ws, Limit(s, limit)) : s \in Ordered(sel, before)}

\* Mutant of StrongRows: a row exactly at the threshold is left out.
StrongRows_Strict(ws, user_id, threshold) ==
    {k \in DOMAIN ws :
        /\ k[1] = user_id
        /\ ws[k].total_count >= MinSamples
        /\ Less(threshold, ws[k].accuracy_rate)}

\* WHERE user_id = ? AND total_count >= 3 AND accuracy_rate >= ?
StrongRows(ws, user_id, threshold) ==
    {k \in DOMAIN ws :
        /\ k[1] = user_id
        /\ ws[k].total_count >= MinSamples
        /\ ~Less(ws[k].accuracy_rate, threshold)}

\* ORDER BY accuracy_rate DESC, total_count DESC
StrongBefore(a, b) ==
    \/ Less(b.accuracy_rate, a.accuracy_rate)
    \/ /\ Same(a.accuracy_rate, b.accuracy_rate)
       /\ a.total_count > b.total_count

get_strengths(ws, user_id, threshold, limit) ==
    LET sel == StrongRows(ws, user_id, threshold)
        before == {jk \in sel \X sel : StrongBefore(ws[jk[1]], ws[jk[2]])}
    IN
    {RowDicts(ws, Limit(s, limit)) : s \in Ordered(sel, before)}

\* Mutant of LeastPracticed: ORDER BY total_count DESC.
LeastPracticed_MostFirst(ws, user_id, count) ==
    LET sel == {k \in DOMAIN ws : k[1] = user_id}
        before == {jk \in sel \X sel :
                      ws[jk[1]].total_count > ws[jk[2]].total_count}
    IN
    {[i \in 1..Len(Limit(s, count)) |-> s[i][2]] : s \in Ordered(sel, before)}

\* Mutant of LeastPracticed: the WHERE user_id = ? condition is left out.
LeastPracticed_AnyUser(ws, user_id, count) ==
    LET sel == DOMAIN ws
        before == {jk \in sel \X sel :
                      ws[jk[1]].total_count < ws[jk[2]].total_count}
    IN
    {[i \in 1..Len(Limit(s, count)) |-> s[i][2]] : s \in Ordered(sel, before)}

\* SELECT tag, total_count ... WHERE user_id = ? ORDER BY total_count ASC LIMIT ?
LeastPracticed(ws, user_id, count) ==
    LET sel == {k \in DOMAIN ws : k[1] = user_id}
        before == {jk \in sel \X sel :
                      ws[jk[1]].total_count < ws[jk[2]].total_count}
    IN
    {[i \in 1..Len(Limit(s, count)) |-> s[i][2]] : s \in Ordered(sel, before)}

\* Mutant of SuggestThreshold: the default threshold of get_weaknesses.
SuggestThreshold_Default == <<3, 5>>

\* threshold=0.7
SuggestThreshold == <<7, 10>>

\* Mutant of get_suggested_tags: the weak tags are topped up with the least
\* practised ones.
get_suggested_tags_ToppedUp(ws, user_id, count) ==
    UNION {{TagsOf(weaknesses) \o extra :
               extra \in LeastPracticed(ws, user_id, count - Len(weaknesses))} :
           weaknesses \in get_weaknesses(ws, user_id, SuggestThreshold, count)}

get_suggested_tags(ws, user_id, count) ==
    UNION {IF weaknesses # << >>
           THEN {TagsOf(weaknesses)}
           ELSE LeastPracticed(ws, user_id, count) :
           weaknesses \in get_weaknesses(ws, user_id, SuggestThreshold, count)}

\* The start of SAA_CATEGORIES and its first storage entry: the list has 52
\* entries, of which the model keeps three.
SAA_CATEGORIES == <<"EC2", "Lambda", "S3">>

\* Mutant of RandomSample: a draw with replacement, as random.choices makes.
RandomSample_WithReplacement(population, n) ==
    {[i \in 1..n |-> population[pos[i]]] :
        pos \in [1..n -> 1..Len(population)]}

\* random.sample(population, n): n entries at distinct positions, in any order
RandomSample(population, n) ==
    {[i \in 1..n |-> population[pos[i]]] :
        pos \in {q \in [1..n -> 1..Len(population)] :
                    \A i, j \in 1..n : i # j => q[i] # q[j]}}

FocusCount == 2

\* Mutant of FocusTags: the suggestion is used as it comes, with no draw from
\* the catalog when it is empty.
FocusTags_NoFallback(ws, user_id) ==
    IF user_id # NoUser THEN get_suggested_tags(ws, user_id, FocusCount)
    ELSE {<< >>}

\* generate_question called with no focus_tags, as app.py calls it: the tags
\* from get_suggested_tags, or a draw from the catalog when there are none.
FocusTags(ws, user_id) ==
    UNION {IF focus_tags # << >>
           THEN {focus_tags}
           ELSE RandomSample(SAA_CATEGORIES, Min(FocusCount, Len(SAA_CATEGORIES))) :
           focus_tags \in IF user_id # NoUser
                          THEN get_suggested_tags(ws, user_id, FocusCount)
                          ELSE {<< >>}}

GetWeaknesses(user_id, threshold, limit) ==
    /\ \E rows \in get_weaknesses(weakness_summary, user_id, threshold, limit) :
          ret' = [op |-> "get_weaknesses", user_id |-> user_id,
                  threshold |-> threshold, limit |-> limit, rows |-> rows]
    /\ UNCHANGED <<tables, procs, lock, returned, session>>

GetStrengths(user_id, threshold, limit) ==
    /\ \E rows \in get_strengths(weakness_summary, user_id, threshold, limit) :
          ret' = [op |-> "get_strengths", user_id |-> user_id,
                  threshold |-> threshold, limit |-> limit, rows |-> rows]
    /\ UNCHANGED <<tables, procs, lock, returned, session>>

GetSuggestedTags(user_id, count) ==
    /\ \E tags \in get_suggested_tags(weakness_summary, user_id, count) :
          ret' = [op |-> "get_suggested_tags", user_id |-> user_id,
                  count |-> count, tags |-> tags]
    /\ UNCHANGED <<tables, procs, lock, returned, session>>

GenerateQuestion(user_id) ==
    /\ \E focus_tags \in FocusTags(weakness_summary, user_id) :
          ret' = [op |-> "generate_question", user_id |-> user_id,
                  focus_tags |-> focus_tags]
    /\ UNCHANGED <<tables, procs, lock, returned, session>>

(***************************************************************************)
(* SpecSel: answers are recorded and the weak and strong areas are read.    *)
(***************************************************************************)
SelTagLists == {<<"EC2">>, <<"EC2", "S3">>}
MaxSelEvents == 4
WeakThresholds == {<<1, 2>>, <<3, 5>>}
StrongThresholds == {<<1, 2>>, <<4, 5>>}
Limits == {1, 5}
Counts == {1, 2}

NextSel ==
    \/ /\ Len(answer_history) < MaxSelEvents
       /\ \E u \in Users, tags \in SelTagLists, c \in BOOLEAN :
             RecordAnswer(u, "Yuri", tags, c)
    \/ \E u \in Users, th \in WeakThresholds, n \in Limits : GetWeaknesses(u, th, n)
    \/ \E u \in Users, th \in StrongThresholds, n \in Limits : GetStrengths(u, th, n)

SpecSel == Init /\ [][NextSel]_vars

(***************************************************************************)
(* SpecSuggest: answers are recorded and tags to practise are asked for.   *)
(***************************************************************************)
NextSuggest ==
    \/ /\ Len(answer_history) < MaxSelEvents
       /\ \E u \in Users, tags \in SelTagLists, c \in BOOLEAN :
             RecordAnswer(u, "Yuri", tags, c)
    \/ \E u \in Users, n \in Counts : GetSuggestedTags(u, n)
    \/ \E u \in Users \cup {NoUser} : GenerateQuestion(u)

SpecSuggest == Init /\ [][NextSuggest]_vars

(***************************************************************************)
(* SpecTxn: two callers run record_answer statement by statement.          *)
(***************************************************************************)
TxnTagLists == {<<"EC2">>, <<"EC2", "S3">>, <<"EC2", "EC2">>}
MaxTxnEvents == 2

NextTxn ==
    \E p \in Procs :
        \/ /\ Len(answer_history) + Cardinality({q \in Procs : InCall(q)}) < MaxTxnEvents
           /\ \E u \in Users, tags \in TxnTagLists, c \in BOOLEAN :
                 Call(p, u, "Yuri", tags, c)
        \/ GucSelect(p)
        \/ GucInsert(p)
        \/ GucCommit(p)
        \/ HistoryInsert(p)
        \/ TagUpsert(p)
        \/ CommitAnswer(p)
        \/ Fail(p)

SpecTxn == Init /\ [][NextTxn]_vars

(***************************************************************************)
(* Reading the tables for the claims.                                      *)
(***************************************************************************)
TotalOf(ws, k) == IF k \in DOMAIN ws THEN ws[k].total_count ELSE 0
CorrectOf(ws, k) == IF k \in DOMAIN ws THEN ws[k].correct_count ELSE 0

\* the answer_history rows of a user whose tag list contains the tag
EventsWith(ah, k) ==
    {i \in 1..Len(ah) : ah[i].user_id = k[1] /\ k[2] \in Range(ah[i].tags)}

\* the step appended one answer_history row
Appended == Len(answer_history') = Len(answer_history) + 1
LastEvent(ah) == ah[Len(ah)]
KeysOf(e) == {<<e.user_id, t>> : t \in Range(e.tags)}

(***************************************************************************)
(* C2: folding the answer history gives the rows maintained incrementally: *)
(* the rows are the (user, tag) pairs of the history, total_count is the   *)
(* number of the user's events whose tags contain the tag, correct_count   *)
(* the number of those that are correct.                                   *)
(***************************************************************************)
C2_FoldEqualsIncremental ==
    /\ DOMAIN weakness_summary =
          {k \in Users \X Tags : EventsWith(answer_history, k) # {}}
    /\ \A k \in DOMAIN weakness_summary :
          /\ weakness_summary[k].total_count =
                Cardinality(EventsWith(answer_history, k))
          /\ weakness_summary[k].correct_count =
                Cardinality({i \in EventsWith(answer_history, k) :
                                answer_history[i].is_correct})

(***************************************************************************)
(* C3: recording one answer event adds exactly 1 to total_count of each    *)
(* tag the event carries, and 1 or 0 to correct_count as the answer is     *)
(* correct or not; a first-seen (user, tag) gets total_count = 1.          *)
(***************************************************************************)
C3_PlusOnePerTag ==
    [][Appended =>
        LET e == LastEvent(answer_history') IN
        \A k \in KeysOf(e) :
            /\ TotalOf(weakness_summary', k) = TotalOf(weakness_summary, k) + 1
            /\ CorrectOf(weakness_summary', k) =
                  CorrectOf(weakness_summary, k) + Inc(e.is_correct)]_vars

(***************************************************************************)
(* C4: recording an answer event of user u with tags T leaves every row    *)
(* other than the rows (u, t), t in T, unchanged: no row of another tag    *)
(* and no row of another user changes, appears or disappears.              *)
(***************************************************************************)
C4_Frame ==
    [][Appended =>
        LET e == LastEvent(answer_history') IN
        \A k \in (DOMAIN weakness_summary \cup DOMAIN weakness_summary') \ KeysOf(e) :
            /\ k \in DOMAIN weakness_summary
            /\ k \in DOMAIN weakness_summary'
            /\ weakness_summary'[k] = weakness_summary[k]]_vars

\* the last event was u1's on EC2 while u2 holds an EC2 row and u1 an S3 row
C4_Witness ==
    /\ answer_history # << >>
    /\ LastEvent(answer_history).user_id = "u1"
    /\ LastEvent(answer_history).tags = <<"EC2">>
    /\ <<"u2", "EC2">> \in DOMAIN weakness_summary
    /\ <<"u1", "S3">> \in DOMAIN weakness_summary

(***************************************************************************)
(* What a returned list is measured against: the counts in the table.      *)
(***************************************************************************)
Quotient(ws, k) == <<ws[k].correct_count, ws[k].total_count>>

\* the list is the table's rows of these (user, tag) keys, each once
ListsRowsOf(rows, user_id, keys) ==
    /\ \A i \in 1..Len(rows) :
          /\ <<user_id, rows[i].tag>> \in keys
          /\ rows[i] = RowDict(weakness_summary, <<user_id, rows[i].tag>>)
    /\ \A i, j \in 1..Len(rows) : i # j => rows[i].tag # rows[j].tag

\* every key left out of the list ranks no higher than any row in the list
NoneLeftOutAbove(rows, user_id, keys, above) ==
    \A k \in keys :
        (\A i \in 1..Len(rows) : rows[i].tag # k[2]) =>
            \A i \in 1..Len(rows) : <<k, <<user_id, rows[i].tag>>>> \notin above

(***************************************************************************)
(* C7: no tag whose total_count is below 3 is returned by get_weaknesses   *)
(* or by get_strengths, whatever its accuracy.                             *)
(***************************************************************************)
C7_MinSamplesFloor ==
    ret.op \in {"get_weaknesses", "get_strengths"} =>
        \A i \in 1..Len(ret.rows) :
            TotalOf(weakness_summary, <<ret.user_id, ret.rows[i].tag>>) >= 3

\* a call that returned a tag while the user has another tag, answered wrong
\* every time so far, with fewer than 3 answers
C7_Witness ==
    /\ ret.op = "get_weaknesses"
    /\ Len(ret.rows) = 1
    /\ \E k \in DOMAIN weakness_summary :
          /\ k[1] = ret.user_id
          /\ weakness_summary[k].total_count < 3
          /\ weakness_summary[k].correct_count = 0

(***************************************************************************)
(* C8: get_weaknesses(user, threshold, limit) returns exactly the user's   *)
(* rows with total_count >= 3 and accuracy strictly below the threshold,   *)
(* by ascending accuracy, ties by descending total_count, cut to the first *)
(* `limit` rows of that order.                                             *)
(***************************************************************************)
C8_WeaknessesExact ==
    ret.op = "get_weaknesses" =>
        LET ws == weakness_summary
            u == ret.user_id
            rows == ret.rows
            keys == {k \in DOMAIN ws :
                        /\ k[1] = u
                        /\ ws[k].total_count >= 3
                        /\ ws[k].correct_count * ret.threshold[2]
                              < ret.threshold[1] * ws[k].total_count}
            above == {jk \in keys \X keys :
                \/ Less(Quotient(ws, jk[1]), Quotient(ws, jk[2]))
                \/ /\ Same(Quotient(ws, jk[1]), Quotient(ws, jk[2]))
                   /\ ws[jk[1]].total_count > ws[jk[2]].total_count}
        IN
        /\ ListsRowsOf(rows, u, keys)
        /\ Len(rows) = Min(ret.limit, Cardinality(keys))
        /\ \A i, j \in 1..Len(rows) :
              i < j => <<<<u, rows[j].tag>>, <<u, rows[i].tag>>>> \notin above
        /\ NoneLeftOutAbove(rows, u, keys, above)

\* two rows of equal accuracy came back, the one with more answers first
C8_Witness ==
    /\ ret.op = "get_weaknesses"
    /\ Len(ret.rows) = 2
    /\ Same(ret.rows[1].accuracy_rate, ret.rows[2].accuracy_rate)
    /\ ret.rows[1].total_count > ret.rows[2].total_count

(***************************************************************************)
(* C9: get_strengths(user, threshold, limit) returns exactly the user's    *)
(* rows with total_count >= 3 and accuracy at or above the threshold (a    *)
(* row exactly at the threshold is in), by descending accuracy, ties by    *)
(* descending total_count, cut to the first `limit` rows of that order.    *)
(***************************************************************************)
C9_StrengthsExact ==
    ret.op = "get_strengths" =>
        LET ws == weakness_summary
            u == ret.user_id
            rows == ret.rows
            keys == {k \in DOMAIN ws :
                        /\ k[1] = u
                        /\ ws[k].total_count >= 3
                        /\ ws[k].correct_count * ret.threshold[2]
                              >= ret.threshold[1] * ws[k].total_count}
            above == {jk \in keys \X keys :
                \/ Less(Quotient(ws, jk[2]), Quotient(ws, jk[1]))
                \/ /\ Same(Quotient(ws, jk[1]), Quotient(ws, jk[2]))
                   /\ ws[jk[1]].total_count > ws[jk[2]].total_count}
        IN
        /\ ListsRowsOf(rows, u, keys)
        /\ Len(rows) = Min(ret.limit, Cardinality(keys))
        /\ \A i, j \in 1..Len(rows) :
              i < j => <<<<u, rows[j].tag>>, <<u, rows[i].tag>>>> \notin above
        /\ NoneLeftOutAbove(rows, u, keys, above)

\* a row exactly at the threshold came back, after a row above it
C9_Witness ==
    /\ ret.op = "get_strengths"
    /\ Len(ret.rows) = 2
    /\ Less(ret.threshold, ret.rows[1].accuracy_rate)
    /\ Same(ret.rows[2].accuracy_rate, ret.threshold)

RECURSIVE StatsOfCalls(_)
StatsOfCalls(log) ==
    IF log = << >> THEN << >>
    ELSE UpsertAll(StatsOfCalls(SubSeq(log, 1, Len(log) - 1)),
                   log[Len(log)].user_id, log[Len(log)].tags,
                   log[Len(log)].is_correct)

(***************************************************************************)
(* C5: a submission fully completes or fully fails: the committed ledger   *)
(* and statistics are at all times exactly those of the submissions that   *)
(* returned, so nothing of a failed record_answer is observable, including *)
(* the tag updates it had executed before the failure.                     *)
(***************************************************************************)
C5_AllOrNothing ==
    /\ Len(answer_history) = Len(returned)
    /\ \A n \in 1..Len(answer_history) :
          /\ answer_history[n].id = returned[n].answer_id
          /\ answer_history[n].user_id = returned[n].user_id
          /\ answer_history[n].tags = returned[n].tags
          /\ answer_history[n].is_correct = returned[n].is_correct
    /\ weakness_summary = StatsOfCalls(returned)

\* a call raised after at least one of its tag updates had been executed,
\* and another call has returned
C5_Witness ==
    /\ \E p \in Procs : procs[p].pc = "raised" /\ procs[p].i >= 2
    /\ returned # << >>

\* the logged calls of a user whose tag list contains the tag
CallsWith(log, k) ==
    {n \in 1..Len(log) : log[n].user_id = k[1] /\ k[2] \in Range(log[n].tags)}

(***************************************************************************)
(* C6: with concurrent submissions no update is lost: once no call is in   *)
(* progress, total_count of a (user, tag) row is the number of returned    *)
(* submissions of that user containing the tag and correct_count the       *)
(* number of correct ones among them.                                      *)
(***************************************************************************)
C6_NoLostUpdate ==
    (\A p \in Procs : ~InCall(p)) =>
        \A k \in Users \X Tags :
            /\ TotalOf(weakness_summary, k) = Cardinality(CallsWith(returned, k))
            /\ CorrectOf(weakness_summary, k) =
                  Cardinality({n \in CallsWith(returned, k) : returned[n].is_correct})

\* The same with every occurrence of a tag in a list counted: no statement
\* of a returned submission is lost and none is applied twice.
RECURSIVE Occurrences(_, _)
Occurrences(tags, tag) ==
    IF tags = << >> THEN 0
    ELSE (IF Head(tags) = tag THEN 1 ELSE 0) + Occurrences(Tail(tags), tag)

RECURSIVE SumOccurrences(_, _, _)
SumOccurrences(log, k, onlyCorrect) ==
    IF log = << >> THEN 0
    ELSE (IF Head(log).user_id = k[1] /\ (Head(log).is_correct \/ ~onlyCorrect)
          THEN Occurrences(Head(log).tags, k[2]) ELSE 0)
         + SumOccurrences(Tail(log), k, onlyCorrect)

NoLostStatement ==
    \A k \in Users \X Tags :
        /\ TotalOf(weakness_summary, k) = SumOccurrences(returned, k, FALSE)
        /\ CorrectOf(weakness_summary, k) = SumOccurrences(returned, k, TRUE)

\* the recorded events of a user
EventsOf(ah, user_id) == {n \in 1..Len(ah) : ah[n].user_id = user_id}

(***************************************************************************)
(* C11: for a user with no recorded event the tags generate_question       *)
(* settles on with count 2 are exactly two, different from each other and  *)
(* both from the catalog SAA_CATEGORIES.                                   *)
(***************************************************************************)
C11_FreshUserTwoCatalogTags ==
    (/\ ret.op = "generate_question"
     /\ ret.user_id \in Users
     /\ EventsOf(answer_history, ret.user_id) = {}) =>
        /\ Len(ret.focus_tags) = 2
        /\ ret.focus_tags[1] # ret.focus_tags[2]
        /\ Range(ret.focus_tags) \subseteq Range(SAA_CATEGORIES)

\* a user without events got a catalog tag nobody has answered on, while the
\* other user has statistics of their own
C11_Witness ==
    /\ ret.op = "generate_question"
    /\ ret.user_id = "u2"
    /\ EventsOf(answer_history, "u2") = {}
    /\ EventsOf(answer_history, "u1") # {}
    /\ "Lambda" \in Range(ret.focus_tags)

\* the user's rows with at least 3 answers and accuracy below 0.7, read from
\* the counts
WeakAt07(ws, user_id) ==
    {k \in DOMAIN ws :
        /\ k[1] = user_id
        /\ ws[k].total_count >= 3
        /\ 10 * ws[k].correct_count < 7 * ws[k].total_count}

\* the pairs <<j, k>> of keys with j weaker than k: lower accuracy, or the
\* same accuracy on more answers
WeakerThan(ws, keys) ==
    {jk \in keys \X keys :
        \/ Less(Quotient(ws, jk[1]), Quotient(ws, jk[2]))
        \/ /\ Same(Quotient(ws, jk[1]), Quotient(ws, jk[2]))
           /\ ws[jk[1]].total_count > ws[jk[2]].total_count}

(***************************************************************************)
(* C12: when the user has a tag with total_count >= 3 and accuracy below   *)
(* 0.7, get_suggested_tags(user, count) returns the tags of the weakest    *)
(* such rows, weakest first, min(count, number of such rows) of them, and  *)
(* no other tag.                                                           *)
(***************************************************************************)
C12_WeaknessTierFirst ==
    (/\ ret.op = "get_suggested_tags"
     /\ WeakAt07(weakness_summary, ret.user_id) # {}) =>
        LET ws == weakness_summary
            u == ret.user_id
            tags == ret.tags
            keys == WeakAt07(ws, u)
            above == WeakerThan(ws, keys)
        IN
        /\ \A i \in 1..Len(tags) : <<u, tags[i]>> \in keys
        /\ \A i, j \in 1..Len(tags) : i # j => tags[i] # tags[j]
        /\ Len(tags) = Min(ret.count, Cardinality(keys))
        /\ \A i, j \in 1..Len(tags) :
              i < j => <<<<u, tags[j]>>, <<u, tags[i]>>>> \notin above
        /\ \A k \in keys : k[2] \notin Range(tags) =>
              \A i \in 1..Len(tags) : <<k, <<u, tags[i]>>>> \notin above

\* one tag was asked for and the user has two weak ones: the weaker came
\* back and the other, weak only at 0.7 and not at 0.6, was left out
C12_Witness ==
    /\ ret.op = "get_suggested_tags"
    /\ ret.count = 1
    /\ Len(ret.tags) = 1
    /\ \E k \in WeakAt07(weakness_summary, ret.user_id) :
          /\ k[2] # ret.tags[1]
          /\ 3 * weakness_summary[k].correct_count = 2 * weakness_summary[k].total_count

(***************************************************************************)
(* C13: when the user has recorded answers and no tag of theirs has        *)
(* total_count >= 3 with accuracy below 0.7, get_suggested_tags(user,      *)
(* count) returns tags of the user's own rows only, those with the         *)
(* smallest total_count, in ascending total_count order, min(count, number *)
(* of rows) of them.                                                       *)
(***************************************************************************)
C13_LeastPracticedTier ==
    (/\ ret.op = "get_suggested_tags"
     /\ EventsOf(answer_history, ret.user_id) # {}
     /\ WeakAt07(weakness_summary, ret.user_id) = {}) =>
        LET ws == weakness_summary
            u == ret.user_id
            tags == ret.tags
            keys == {k \in DOMAIN ws : k[1] = u}
        IN
        /\ \A i \in 1..Len(tags) : <<u, tags[i]>> \in keys
        /\ \A i, j \in 1..Len(tags) : i # j => tags[i] # tags[j]
        /\ Len(tags) = Min(ret.count, Cardinality(keys))
        /\ \A i, j \in 1..Len(tags) :
              i < j => ws[<<u, tags[i]>>].total_count <= ws[<<u, tags[j]>>].total_count
        /\ \A k \in keys : k[2] \notin Range(tags) =>
              \A i \in 1..Len(tags) :
                  ws[<<u, tags[i]>>].total_count <= ws[k].total_count

\* one tag was asked for, the user has two rows with different counts and
\* none is weak: the less practised tag came back
C13_Witness ==
    /\ ret.op = "get_suggested_tags"
    /\ ret.count = 1
    /\ Len(ret.tags) = 1
    /\ WeakAt07(weakness_summary, ret.user_id) = {}
    /\ \E k \in DOMAIN weakness_summary :
          /\ k[1] = ret.user_id
          /\ weakness_summary[k].total_count >
                weakness_summary[<<ret.user_id, ret.tags[1]>>].total_count

\* the default arguments of get_weaknesses and get_strengths
DefaultWeakThreshold == <<3, 5>>
\* Mutant of DefaultStrongThreshold: a strength threshold below the weakness
\* threshold.
DefaultStrongThreshold_Half == <<1, 2>>

DefaultStrongThreshold == <<4, 5>>
DefaultLimit == 5

\* get_weaknesses(user_id) was the last operation
DefaultWeaknessesRead ==
    /\ ret.op = "get_weaknesses"
    /\ ret.threshold = DefaultWeakThreshold
    /\ ret.limit = DefaultLimit

\* the user's tags with the given counts
TagsAt(ws, user_id, total, correct) ==
    {k[2] : k \in {x \in DOMAIN ws : /\ x[1] = user_id
                                      /\ ws[x].total_count = total
                                      /\ ws[x].correct_count = correct}}

MaxScenarioEvents == 7

NextScenario ==
    \/ /\ Len(answer_history) < MaxScenarioEvents
       /\ \E t \in Tags, c \in BOOLEAN : RecordAnswer("u1", "Yuri", <<t>>, c)
    \/ \E u \in Users : GetWeaknesses(u, DefaultWeakThreshold, DefaultLimit)
    \/ \E u \in Users : GetStrengths(u, DefaultStrongThreshold, DefaultLimit)
    \/ \E u \in Users : GetSuggestedTags(u, 1)

SpecScenario == Init /\ [][NextScenario]_vars

\* the ledger is: u1 answered S3 wrong 3 times, then EC2 right 4 times
ScenarioDone ==
    /\ Len(answer_history) = 7
    /\ \A n \in 1..7 :
          /\ answer_history[n].user_id = "u1"
          /\ answer_history[n].tags = (IF n <= 3 THEN <<"S3">> ELSE <<"EC2">>)
          /\ answer_history[n].is_correct = (n > 3)

(***************************************************************************)
(* C15: from an empty store, after u1 answered S3 wrong 3 times and then   *)
(* EC2 right 4 times, get_weaknesses(u1) returns the one row of S3,        *)
(* get_strengths(u1) the one row of EC2 and get_suggested_tags(u1, 1) the  *)
(* list [S3].                                                              *)
(***************************************************************************)
C15_Scenario ==
    (ScenarioDone /\ ret.op # "record_answer" /\ ret.user_id = "u1") =>
        /\ ret.op = "get_weaknesses" =>
              /\ TagsOf(ret.rows) = <<"S3">>
              /\ ret.rows[1].total_count = 3
              /\ ret.rows[1].correct_count = 0
        /\ ret.op = "get_strengths" =>
              /\ TagsOf(ret.rows) = <<"EC2">>
              /\ ret.rows[1].total_count = 4
              /\ ret.rows[1].correct_count = 4
        /\ ret.op = "get_suggested_tags" => ret.tags = <<"S3">>

\* the suggestion was read after the seven answers
C15_Witness ==
    /\ ScenarioDone
    /\ ret.op = "get_suggested_tags"
    /\ ret.user_id = "u1"
    /\ ret.tags = <<"S3">>

(***************************************************************************)
(* SpecLedger: two callers run record_answer statement by statement, with  *)
(* failures, while the tables are read.                                    *)
(***************************************************************************)
NextLedger ==
    \/ NextTxn
    \/ \E u \in Users : GetWeaknesses(u, DefaultWeakThreshold, DefaultLimit)
    \/ \E u \in Users : GetSuggestedTags(u, FocusCount)

SpecLedger == Init /\ [][NextLedger]_vars

(***************************************************************************)
(* C16: the ledger only grows at its end: in every step of every           *)
(* operation, each committed answer_history row stays at its place with    *)
(* its content.                                                            *)
(***************************************************************************)
C16_AppendOnly ==
    [][/\ Len(answer_history') >= Len(answer_history)
       /\ SubSeq(answer_history', 1, Len(answer_history)) = answer_history]_vars

\* two answers are recorded, and in between another record_answer failed
\* after its INSERT INTO answer_history
C16_Witness ==
    /\ Len(answer_history) = 2
    /\ \E p \in Procs : procs[p].pc = "raised" /\ procs[p].i >= 1
    /\ ret.op = "get_suggested_tags"

(***************************************************************************)
(* C17: the identifiers record_answer returned are strictly increasing in  *)
(* the order of the returns, over all users and callers, whatever calls    *)
(* failed and were rolled back in between.                                 *)
(***************************************************************************)
C17_IdsIncrease ==
    \A m, n \in 1..Len(returned) :
        m < n => returned[m].answer_id < returned[n].answer_id

\* two calls of different users returned, with identifiers 1 and 2, and a
\* call that failed after its INSERT was rolled back before the second
C17_Witness ==
    /\ Len(returned) = 2
    /\ returned[1].user_id # returned[2].user_id
    /\ returned[2].answer_id = 2
    /\ \E p \in Procs : procs[p].pc = "raised" /\ procs[p].i >= 1

(***************************************************************************)
(* C18: an append with an empty tag list or an empty user id is rejected   *)
(* before anything is written, so no answer_history row has an empty tag   *)
(* list or an empty user id, and no users row has an empty id.             *)
(***************************************************************************)
C18_InvalidAppendRejected ==
    /\ \A n \in 1..Len(answer_history) :
          /\ answer_history[n].tags # << >>
          /\ answer_history[n].user_id # NoUser
    /\ NoUser \notin users

(***************************************************************************)
(* C19: when a tag update of record_answer fails after the call's INSERT   *)
(* INTO answer_history, the inserted row is not rolled back: after the     *)
(* failure the ledger is the one the call had written, with its row.       *)
(***************************************************************************)
C19_LedgerKeptOnStatsFailure ==
    [][\A p \in Procs :
          (/\ procs[p].pc = "upsert"
           /\ procs[p].i <= Len(procs[p].tags)
           /\ procs'[p].pc = "raised") =>
              answer_history' = procs[p].w.answer_history]_vars

(***************************************************************************)
(* The pages of app.py.  Every action is one run of the script: the click  *)
(* that started it and the st.rerun() that ends it.                        *)
(***************************************************************************)
\* what the language model may send back as a question, and the fixed
\* questions of the offline mode: tags as a list, as one string, or missing
\* with a category in their place
LLMQuestions ==
    {[present |-> TRUE, tags_kind |-> "list", tags_list |-> <<"EC2", "S3">>,
      tags_str |-> "", category |-> "", correct |-> "A"],
     [present |-> TRUE, tags_kind |-> "str", tags_list |-> << >>,
      tags_str |-> "S3", category |-> "", correct |-> "B"]}

OfflineQuestions ==
    <<[present |-> TRUE, tags_kind |-> "absent", tags_list |-> << >>,
       tags_str |-> "", category |-> "EC2", correct |-> "A"],
      [present |-> TRUE, tags_kind |-> "list", tags_list |-> <<"S3">>,
       tags_str |-> "", category |-> "", correct |-> "B"]>>

MaxSessionEvents == 3

\* reset_quiz_state
ResetQuizState(s) ==
    [s EXCEPT !.current_question = 0, !.score = 0, !.total_answered = 0,
              !.answered = FALSE, !.selected_answer = NoAnswer,
              !.quiz_complete = FALSE, !.current_online_question = NoQuestion]

\* tags = question.get("tags", [question.get("category", "General")]);
\* if isinstance(tags, str): tags = [tags]
NormalizedTags(q) ==
    IF q.tags_kind = "list" THEN q.tags_list
    ELSE IF q.tags_kind = "str" THEN <<q.tags_str>>
    ELSE <<IF q.category = "" THEN "General" ELSE q.category>>

\* Mutant of DisplayedQuestion: the online page does not look at
\* total_answered.
DisplayedQuestion_NoQuota(s) ==
    IF s.quiz_mode = "online"
    THEN s.current_online_question
    ELSE IF s.quiz_complete
         THEN NoQuestion ELSE OfflineQuestions[s.current_question + 1]

\* the question whose options and buttons the page shows
DisplayedQuestion(s) ==
    IF s.quiz_mode = "online"
    THEN IF s.total_answered >= s.online_question_count
         THEN NoQuestion ELSE s.current_online_question
    ELSE IF s.quiz_complete
         THEN NoQuestion ELSE OfflineQuestions[s.current_question + 1]

\* render_sidebar: the other mode is chosen
SelectMode(new_mode) ==
    /\ new_mode # session.quiz_mode
    /\ session' = ResetQuizState([session EXCEPT !.quiz_mode = new_mode])
    /\ UNCHANGED <<tables, procs, lock, returned, ret>>

\* the restart button of the sidebar and of the completion page; a
\* character button of the sidebar does the same to these keys
Restart ==
    /\ session' = ResetQuizState(session)
    /\ UNCHANGED <<tables, procs, lock, returned, ret>>

\* render_online_question with the session complete
OnlineComplete ==
    /\ session.quiz_mode = "online"
    /\ session.total_answered >= session.online_question_count
    /\ session' = [session EXCEPT !.quiz_complete = TRUE]
    /\ UNCHANGED <<tables, procs, lock, returned, ret>>

\* the online page is not complete and
\* current_online_question is None and not answered
GenerationDue(s) ==
    /\ s.quiz_mode = "online"
    /\ s.total_answered < s.online_question_count
    /\ ~s.current_online_question.present
    /\ ~s.answered

\* Mutant of AfterGeneration: a missing question is counted as answered.
AfterGeneration_CountsAbsent(s, question) ==
    IF question.present
    THEN [s EXCEPT !.current_online_question = question]
    ELSE [s EXCEPT !.total_answered = @ + 1]

\* if question: current_online_question = question; else: st.error, return
AfterGeneration(s, question) ==
    IF question.present
    THEN [s EXCEPT !.current_online_question = question]
    ELSE s

\* render_online_question with no question at hand: generate_question gives
\* a question, or None, or raises
OnlineGenerate ==
    /\ GenerationDue(session)
    /\ \E focus_tags \in FocusTags(weakness_summary, SessionUser),
          question \in LLMQuestions \cup {NoQuestion} :
          /\ session' = AfterGeneration(session, question)
          /\ ret' = [op |-> "generate_question", user_id |-> SessionUser,
                     focus_tags |-> focus_tags, present |-> question.present]
    /\ UNCHANGED <<tables, procs, lock, returned>>

\* an option button
SelectAnswer(option_key) ==
    /\ DisplayedQuestion(session).present
    /\ ~session.answered
    /\ session' = [session EXCEPT !.selected_answer = option_key]
    /\ UNCHANGED <<tables, procs, lock, returned, ret>>

\* tells one call of record_answer_to_db from the call before it
NextCall == IF ret.op = "record_answer_to_db" THEN 1 - ret.call ELSE 0

\* record_answer_to_db: record_answer runs to its commit, or an exception is
\* caught and printed.  get_or_create_user commits on a connection of its
\* own, so the users row may be there although record_answer failed.
RecordAnswerToDb(question, is_correct) ==
    \/ /\ users' = GetOrCreateUser(users, SessionUser)
       /\ answer_history' = InsertHistory(answer_history, sqlite_sequence,
                                SessionUser, "Yuri", NormalizedTags(question),
                                is_correct)
       /\ sqlite_sequence' = sqlite_sequence + 1
       /\ weakness_summary' = UpsertAll(weakness_summary, SessionUser,
                                        NormalizedTags(question), is_correct)
       /\ ret' = [op |-> "record_answer_to_db", recorded |-> TRUE,
                  call |-> NextCall]
    \/ /\ users' \in {users, GetOrCreateUser(users, SessionUser)}
       /\ UNCHANGED <<answer_history, sqlite_sequence, weakness_summary>>
       /\ ret' = [op |-> "record_answer_to_db", recorded |-> FALSE,
                  call |-> NextCall]

\* Mutant of Checked: answered is not set.
Checked_StaysOpen(s, is_correct) ==
    [s EXCEPT !.score = IF is_correct THEN @ + 1 ELSE @,
              !.total_answered = @ + 1]

\* if is_correct: score += 1; total_answered += 1; answered = True
Checked(s, is_correct) ==
    [s EXCEPT !.score = IF is_correct THEN @ + 1 ELSE @,
              !.total_answered = @ + 1,
              !.answered = TRUE]

\* the check-answer button of render_online_question and of
\* render_offline_question
CheckAnswer ==
    LET question == DisplayedQuestion(session)
        is_correct == session.selected_answer = question.correct
    IN
    /\ question.present
    /\ ~session.answered
    /\ session.selected_answer # NoAnswer
    /\ Len(answer_history) < MaxSessionEvents
    /\ session' = Checked(session, is_correct)
    /\ RecordAnswerToDb(question, is_correct)
    /\ UNCHANGED <<procs, lock, returned>>

\* the next-question button
NextQuestion ==
    /\ DisplayedQuestion(session).present
    /\ session.answered
    /\ session' =
          IF session.quiz_mode = "online"
          THEN [session EXCEPT !.answered = FALSE, !.selected_answer = NoAnswer,
                               !.current_online_question = NoQuestion]
          ELSE [session EXCEPT
                   !.quiz_complete = (session.current_question + 1 >= Len(OfflineQuestions)),
                   !.current_question = IF session.current_question + 1 >= Len(OfflineQuestions)
                                        THEN @ ELSE @ + 1,
                   !.answered = FALSE, !.selected_answer = NoAnswer]
    /\ UNCHANGED <<tables, procs, lock, returned, ret>>

(***************************************************************************)
(* SpecSession: one user goes through quizzes in both modes.               *)
(***************************************************************************)
NextSession ==
    \/ \E new_mode \in {"offline", "online"} : SelectMode(new_mode)
    \/ Restart
    \/ OnlineComplete
    \/ OnlineGenerate
    \/ \E option_key \in Options : SelectAnswer(option_key)
    \/ CheckAnswer
    \/ NextQuestion

SpecSession == Init /\ [][NextSession]_vars

(***************************************************************************)
(* C20: an answer whose recording failed is not counted: a submission that *)
(* leaves the ledger as it was leaves score and total_answered as they     *)
(* were.                                                                   *)
(***************************************************************************)
C20_NoCreditWhenUnrecorded ==
    [][(/\ ~session.answered
        /\ session'.answered
        /\ answer_history' = answer_history) =>
           /\ session'.score = session.score
           /\ session'.total_answered = session.total_answered]_vars

(***************************************************************************)
(* The ledger with its created_at column.  The column defaults to          *)
(* CURRENT_TIMESTAMP, the wall clock in whole seconds: a row is stamped    *)
(* with the second of the row before it or with a later one.               *)
(***************************************************************************)
Characters == {"Botan", "Yuri"}
NoCharacter == ""

\* the seconds the clock may show at the next INSERT
Now(ah) ==
    IF ah = << >> THEN {0}
    ELSE {ah[Len(ah)].created_at, ah[Len(ah)].created_at + 1}

\* created_at TIMESTAMP DEFAULT CURRENT_TIMESTAMP, on the row just inserted
Stamped(ah, now) ==
    [n \in 1..Len(ah) |->
        IF n = Len(ah) THEN ah[n] @@ [created_at |-> now] ELSE ah[n]]

\* record_answer at the second now
RecordAnswerAt(user_id, character, tags, is_correct, now) ==
    /\ users' = GetOrCreateUser(users, user_id)
    /\ answer_history' =
          Stamped(InsertHistory(answer_history, sqlite_sequence,
                                user_id, character, tags, is_correct), now)
    /\ sqlite_sequence' = sqlite_sequence + 1
    /\ weakness_summary' = UpsertAll(weakness_summary, user_id, tags, is_correct)
    /\ ret' = [op |-> "record_answer", answer_id |-> sqlite_sequence + 1]
    /\ UNCHANGED <<procs, lock, returned, session>>

\* Mutant of RecentBefore: ORDER BY created_at ASC.
RecentBefore_OldestFirst(a, b) == a.created_at < b.created_at

\* ORDER BY created_at DESC
RecentBefore(a, b) == a.created_at > b.created_at

\* SELECT ... FROM answer_history WHERE user_id = ? [AND character = ?]
\* ORDER BY created_at DESC LIMIT ?
get_answer_history(ah, user_id, limit, character) ==
    LET sel == {n \in 1..Len(ah) :
                   /\ ah[n].user_id = user_id
                   /\ character # NoCharacter => ah[n].character = character}
        before == {jk \in sel \X sel : RecentBefore(ah[jk[1]], ah[jk[2]])}
    IN
    {[i \in 1..Len(Limit(s, limit)) |-> ah[s[i]]] : s \in Ordered(sel, before)}

GetAnswerHistory(user_id, limit, character) ==
    /\ \E rows \in get_answer_history(answer_history, user_id, limit, character) :
          ret' = [op |-> "get_answer_history", user_id |-> user_id,
                  limit |-> limit, character |-> character, rows |-> rows]
    /\ UNCHANGED <<tables, procs, lock, returned, session>>

(***************************************************************************)
(* SpecHistory: answers are recorded, some within the same second, and the *)
(* recent history is read.                                                 *)
(***************************************************************************)
MaxHistoryEvents == 3
HistoryLimits == {2, 10}

NextHistory ==
    \/ /\ Len(answer_history) < MaxHistoryEvents
       /\ \E u \in Users, ch \in Characters, now \in Now(answer_history) :
             RecordAnswerAt(u, ch, <<"EC2">>, TRUE, now)
    \/ \E u \in Users, n \in HistoryLimits, ch \in Characters \cup {NoCharacter} :
          GetAnswerHistory(u, n, ch)

SpecHistory == Init /\ [][NextHistory]_vars

(***************************************************************************)
(* C21: get_answer_history(user, limit, character) returns at most limit   *)
(* rows, all of the user (and of the character when one is given), the     *)
(* most recent first: a row recorded later is never after a row recorded   *)
(* earlier, also for rows of the same second.                              *)
(***************************************************************************)
C21_MostRecentFirst ==
    ret.op = "get_answer_history" =>
        /\ Len(ret.rows) <= ret.limit
        /\ \A i \in 1..Len(ret.rows) :
              /\ ret.rows[i].user_id = ret.user_id
              /\ ret.character # NoCharacter => ret.rows[i].character = ret.character
        /\ \A i, j \in 1..Len(ret.rows) : i < j => ret.rows[i].id > ret.rows[j].id

\* The same with the order taken by the second only: what the query gives.
HistoryBySecond ==
    ret.op = "get_answer_history" =>
        /\ Len(ret.rows) <= ret.limit
        /\ \A i \in 1..Len(ret.rows) :
              /\ ret.rows[i].user_id = ret.user_id
              /\ ret.character # NoCharacter => ret.rows[i].character = ret.character
        /\ \A i, j \in 1..Len(ret.rows) :
              i < j => ret.rows[i].created_at >= ret.rows[j].created_at

(***************************************************************************)
(* C22: for a user with no statistics rows (an unknown user id included),  *)
(* get_weaknesses, get_strengths and get_suggested_tags complete and       *)
(* return the empty list: the only result each can produce is << >>, and   *)
(* that is what a call returned.                                           *)
(***************************************************************************)
HasNoData(ws, user_id) == \A k \in DOMAIN ws : k[1] # user_id

C22_NoDataIsEmpty ==
    /\ \A u \in Users \cup {NoUser} :
          HasNoData(weakness_summary, u) =>
             /\ get_weaknesses(weakness_summary, u,
                               DefaultWeakThreshold, DefaultLimit) = {<< >>}
             /\ get_strengths(weakness_summary, u,
                              DefaultStrongThreshold, DefaultLimit) = {<< >>}
             /\ \A n \in Counts :
                   get_suggested_tags(weakness_summary, u, n) = {<< >>}
    /\ (/\ ret.op \in {"get_weaknesses", "get_strengths"}
        /\ HasNoData(weakness_summary, ret.user_id)) => ret.rows = << >>
    /\ (/\ ret.op = "get_suggested_tags"
        /\ HasNoData(weakness_summary, ret.user_id)) => ret.tags = << >>

\* u2 has never answered, u1 has a row: the suggestion for u2 came back empty
C22_Witness ==
    /\ ret.op = "get_suggested_tags"
    /\ ret.user_id = "u2"
    /\ ret.tags = << >>
    /\ "u2" \notin users
    /\ weakness_summary # << >>

(***************************************************************************)
(* generate_question as the steps of one caller.  get_suggested_tags opens *)
(* a connection inside get_weaknesses and, when that finds nothing, a      *)
(* second one for the least practised tags; each is closed when its `with` *)
(* block is left.  The language model is called after that, and answers    *)
(* with a question or with none.                                           *)
(***************************************************************************)
\* generate_question(character, user_id): get_suggested_tags only runs for
\* a user id that is not empty; get_weaknesses enters get_connection()
GenCall(p, user_id) ==
    /\ ~InCall(p)
    /\ procs' = [procs EXCEPT ![p] =
            IF user_id # NoUser
            THEN [IdleProc EXCEPT !.pc = "gen_weak", !.user_id = user_id, !.conns = 1]
            ELSE [IdleProc EXCEPT !.pc = "gen_focus", !.user_id = user_id]]
    /\ UNCHANGED <<tables, lock, returned, ret, session>>

\* weaknesses = get_weaknesses(user_id, threshold=0.7, limit=count); the
\* connection closes; if weaknesses: return the tags, else the second
\* `with get_connection()` is entered
GenWeaknesses(p) ==
    /\ procs[p].pc = "gen_weak"
    /\ \E weaknesses \in get_weaknesses(weakness_summary, procs[p].user_id,
                                        SuggestThreshold, FocusCount) :
          procs' = [procs EXCEPT ![p] =
              IF weaknesses # << >>
              THEN [@ EXCEPT !.pc = "gen_focus", !.tags = TagsOf(weaknesses),
                             !.conns = CloseConnection(@)]
              ELSE [@ EXCEPT !.pc = "gen_least",
                             !.conns = CloseConnection(@) + 1]]
    /\ UNCHANGED <<tables, lock, returned, ret, session>>

\* SELECT tag, total_count ... ORDER BY total_count ASC LIMIT ?; return
GenLeastPracticed(p) ==
    /\ procs[p].pc = "gen_least"
    /\ \E tags \in LeastPracticed(weakness_summary, procs[p].user_id, FocusCount) :
          procs' = [procs EXCEPT ![p].pc = "gen_focus", ![p].tags = tags,
                                 ![p].conns = CloseConnection(@)]
    /\ UNCHANGED <<tables, lock, returned, ret, session>>

\* if not focus_tags: random.sample(...); then self.llm.generate_question(...)
\* is called
GenCallLLM(p) ==
    /\ procs[p].pc = "gen_focus"
    /\ \E focus_tags \in (IF procs[p].tags # << >>
                          THEN {procs[p].tags}
                          ELSE RandomSample(SAA_CATEGORIES,
                                            Min(FocusCount, Len(SAA_CATEGORIES)))) :
          procs' = [procs EXCEPT ![p].pc = "gen_llm", ![p].tags = focus_tags]
    /\ UNCHANGED <<tables, lock, returned, ret, session>>

\* the language model answers; return question
GenReturn(p) ==
    /\ procs[p].pc = "gen_llm"
    /\ \E present \in BOOLEAN :
          ret' = [op |-> "generate_question", user_id |-> procs[p].user_id,
                  focus_tags |-> procs[p].tags, present |-> present]
    /\ procs' = [procs EXCEPT ![p] = [IdleProc EXCEPT !.pc = "returned"]]
    /\ UNCHANGED <<tables, lock, returned, session>>

(***************************************************************************)
(* SpecGen: one caller records wrong answers of u1 and the other asks for  *)
(* questions, statement by statement.                                      *)
(***************************************************************************)
MaxGenEvents == 4
Recorder == "p1"
Asker == "p2"

NextGen ==
    \E p \in Procs :
        \/ /\ Len(answer_history) + Cardinality({q \in Procs : InCall(q)}) < MaxGenEvents
           /\ p = Recorder
           /\ \E t \in Tags : Call(p, "u1", "Yuri", <<t>>, FALSE)
        \/ GucSelect(p)
        \/ GucInsert(p)
        \/ GucCommit(p)
        \/ HistoryInsert(p)
        \/ TagUpsert(p)
        \/ CommitAnswer(p)
        \/ Fail(p)
        \/ p = Asker /\ \E u \in Users \cup {NoUser} : GenCall(p, u)
        \/ GenWeaknesses(p)
        \/ GenLeastPracticed(p)
        \/ GenCallLLM(p)
        \/ GenReturn(p)

SpecGen == Init /\ [][NextGen]_vars

(***************************************************************************)
(* C23: while a caller is in the call to the language model it has no      *)
(* database connection open, holds no write lock and has no uncommitted    *)
(* work; and a caller inside record_answer or inside get_suggested_tags    *)
(* (a connection open) is not in a call to the language model.             *)
(***************************************************************************)
InRecordAnswer(p) ==
    procs[p].pc \in {"guc_select", "guc_insert", "guc_commit", "insert_history", "upsert"}

C23_NoCallInsideTransaction ==
    \A p \in Procs :
        /\ procs[p].pc = "gen_llm" =>
              /\ procs[p].conns = 0
              /\ lock # p
              /\ procs[p].w = NoWork
        /\ InRecordAnswer(p) => procs[p].conns > 0 /\ procs[p].pc # "gen_llm"
        /\ procs[p].pc \in {"gen_weak", "gen_least"} => procs[p].conns = 1

\* a caller is in the call to the language model with tags taken from its
\* user's statistics, while the other caller's transaction is open
C23_Witness ==
    \E p, q \in Procs :
        /\ procs[p].pc = "gen_llm"
        /\ procs[p].user_id \in users
        /\ procs[p].tags \in {TagsOf(weaknesses) : weaknesses \in
                 get_weaknesses(weakness_summary, procs[p].user_id,
                                SuggestThreshold, FocusCount)}
        /\ q # p
        /\ lock = q
        /\ procs[q].pc = "upsert"

(***************************************************************************)
(* C24: when generate_question yields no question, nothing is recorded,    *)
(* score, total_answered and the rest of the session stay as they were, no *)
(* current question is set, and the page is again in the state in which a  *)
(* render generates a question.                                            *)
(***************************************************************************)
C24_AbsentQuestionIsRetried ==
    [][(ret'.op = "generate_question" /\ ~ret'.present /\ ret' # ret) =>
          /\ tables' = tables
          /\ session'.score = session.score
          /\ session'.total_answered = session.total_answered
          /\ session' = session
          /\ ~session'.current_online_question.present
          /\ GenerationDue(session')]_vars

\* after a recorded, correct answer the next generation yielded no question
C24_Witness ==
    /\ ret.op = "generate_question"
    /\ ~ret.present
    /\ session.quiz_mode = "online"
    /\ ~session.current_online_question.present
    /\ session.score > 0
    /\ session.total_answered > 0
    /\ answer_history # << >>

(***************************************************************************)
(* C25: get_or_create_user is safe under concurrent callers: a caller that *)
(* found no users row and is about to insert one does not raise when       *)
(* another caller has committed the same user_id in between; there is      *)
(* one users row and both submissions go on.                               *)
(***************************************************************************)
C25_ConcurrentCreateSafe ==
    [][\A p \in Procs :
          (procs[p].pc = "guc_insert" /\ procs[p].user_id \in users) =>
              procs'[p].pc # "raised"]_vars

(***************************************************************************)
(* C26: record_answer is invoked at most once for a question shown: each   *)
(* invocation happens with answered false and sets it, in online and in    *)
(* offline mode, and answered becomes false again only when the page moves *)
(* on (next question, restart, other mode), which also clears the          *)
(* selection.                                                              *)
(***************************************************************************)
Invoked == ret'.op = "record_answer_to_db" /\ ret' # ret

MovedOn ==
    /\ session'.selected_answer = NoAnswer
    /\ \/ session'.quiz_mode # session.quiz_mode
       \/ session' = ResetQuizState(session)
       \/ /\ session.quiz_mode = "online"
          /\ ~session'.current_online_question.present
       \/ /\ session.quiz_mode = "offline"
          /\ \/ session'.current_question = session.current_question + 1
             \/ session'.quiz_complete

C26_RecordedOncePerQuestion ==
    [][/\ Invoked =>
            /\ ~session.answered
            /\ session'.answered
            /\ DisplayedQuestion(session).present
       /\ (session.answered /\ ~session'.answered) => MovedOn
       /\ (session.answered /\ session'.answered) =>
            (~Invoked /\ tables' = tables)]_vars

\* the second question of an online quiz has been answered and recorded
C26_Witness ==
    /\ ret.op = "record_answer_to_db"
    /\ ret.recorded
    /\ session.quiz_mode = "online"
    /\ session.answered
    /\ session.total_answered = 2
    /\ Len(answer_history) = 2

(***************************************************************************)
(* C27: with the default thresholds no tag is returned both by             *)
(* get_weaknesses and by get_strengths for the same user in the same       *)
(* state: whatever the two calls can return there, the tags are disjoint,  *)
(* and so are the tags a call did return and those of the other list.      *)
(***************************************************************************)
WeakTags(ws, user_id) ==
    UNION {Range(TagsOf(rows)) : rows \in
              get_weaknesses(ws, user_id, DefaultWeakThreshold, DefaultLimit)}

StrongTags(ws, user_id) ==
    UNION {Range(TagsOf(rows)) : rows \in
              get_strengths(ws, user_id, DefaultStrongThreshold, DefaultLimit)}

C27_WeakAndStrongDisjoint ==
    /\ \A u \in Users :
          WeakTags(weakness_summary, u) \cap StrongTags(weakness_summary, u) = {}
    /\ ret.op = "get_weaknesses" =>
          Range(TagsOf(ret.rows)) \cap StrongTags(weakness_summary, ret.user_id) = {}
    /\ ret.op = "get_strengths" =>
          Range(TagsOf(ret.rows)) \cap WeakTags(weakness_summary, ret.user_id) = {}

\* the strengths were read for a user who has a weak tag as well
C27_Witness ==
    /\ ret.op = "get_strengths"
    /\ ret.rows # << >>
    /\ WeakTags(weakness_summary, ret.user_id) # {}

(***************************************************************************)
(* get_user_stats: the overall and the per-character counts of the user's  *)
(* events, then get_weaknesses(user_id) and get_strengths(user_id) with    *)
(* their defaults.  The averages of the answer times and the per-day       *)
(* counts of the last week are left out.  SUM over no rows is NULL, which  *)
(* is_null records.                                                        *)
(***************************************************************************)
Overall(ah, user_id) ==
    LET mine == {n \in 1..Len(ah) : ah[n].user_id = user_id} IN
    [total_questions |-> Cardinality(mine),
     correct_count |-> Cardinality({n \in mine : ah[n].is_correct}),
     is_null |-> mine = {}]

\* GROUP BY character: one entry per character the user has events with
ByCharacter(ah, user_id) ==
    LET mine == {n \in 1..Len(ah) : ah[n].user_id = user_id} IN
    [ch \in {ah[n].character : n \in mine} |->
        [questions |-> Cardinality({n \in mine : ah[n].character = ch}),
         correct |-> Cardinality({n \in mine :
                                    ah[n].character = ch /\ ah[n].is_correct})]]

\* Mutant of StatsFrame: the read makes sure the user exists, as
\* record_answer does.
StatsFrame_CreatesUser(user_id) ==
    /\ users' = GetOrCreateUser(users, user_id)
    /\ UNCHANGED <<answer_history, sqlite_sequence, weakness_summary>>

\* every statement of get_user_stats is a SELECT
StatsFrame(user_id) == UNCHANGED tables

GetUserStats(user_id) ==
    /\ \E weaknesses \in get_weaknesses(weakness_summary, user_id,
                                        DefaultWeakThreshold, DefaultLimit),
          strengths \in get_strengths(weakness_summary, user_id,
                                      DefaultStrongThreshold, DefaultLimit) :
          ret' = [op |-> "get_user_stats", user_id |-> user_id,
                  overall |-> Overall(answer_history, user_id),
                  by_character |-> ByCharacter(answer_history, user_id),
                  weaknesses |-> weaknesses, strengths |-> strengths]
    /\ StatsFrame(user_id)
    /\ UNCHANGED <<procs, lock, returned, session>>

(***************************************************************************)
(* SpecReads: answers are recorded and every read operation is called.     *)
(* The events are right answers to Botan's questions and wrong answers to  *)
(* Yuri's, of either user, in the same second as the one before or later.  *)
(***************************************************************************)
MaxReadEvents == 3
ReadLimit == 10

NextReads ==
    \/ /\ Len(answer_history) < MaxReadEvents
       /\ \E u \in Users, c \in BOOLEAN, now \in Now(answer_history) :
             RecordAnswerAt(u, IF c THEN "Botan" ELSE "Yuri", <<"EC2">>, c, now)
    \/ \E u \in Users :
          \/ GetWeaknesses(u, DefaultWeakThreshold, DefaultLimit)
          \/ GetStrengths(u, DefaultStrongThreshold, DefaultLimit)
          \/ GetSuggestedTags(u, FocusCount)
          \/ GetAnswerHistory(u, ReadLimit, NoCharacter)
          \/ GetUserStats(u)

SpecReads == Init /\ [][NextReads]_vars

(***************************************************************************)
(* C28: get_weaknesses, get_strengths, get_suggested_tags,                 *)
(* get_answer_history and get_user_stats leave the answer ledger, the tag  *)
(* statistics and the users table as they were: a step of one of them      *)
(* changes no table, and the tables change only on a record_answer step.   *)
(***************************************************************************)
ReadOps ==
    {"get_weaknesses", "get_strengths", "get_suggested_tags",
     "get_answer_history", "get_user_stats"}

C28_ReadsChangeNothing ==
    [][/\ ret'.op \in ReadOps => tables' = tables
       /\ tables' # tables => ret'.op = "record_answer"]_vars

\* the statistics of a user with events were read, and the tables hold
\* exactly what record_answer had written
C28_Witness ==
    /\ ret.op = "get_user_stats"
    /\ ret.overall.total_questions = MaxReadEvents
    /\ ret.user_id \in users
    /\ Len(answer_history) = MaxReadEvents
    /\ ret.weaknesses # << >>

(***************************************************************************)
(* C29: get_suggested_tags(user, count) returns at most count tags, no tag *)
(* twice, each the tag of a statistics row of that user; when the user has *)
(* weak tags but fewer than count, exactly those are returned and none of  *)
(* the least practised ones is added.                                      *)
(***************************************************************************)
OwnTags(ws, user_id) == {k[2] : k \in {j \in DOMAIN ws : j[1] = user_id}}

C29_AtMostCountOwnTags ==
    ret.op = "get_suggested_tags" =>
        LET weak == {k[2] : k \in WeakAt07(weakness_summary, ret.user_id)} IN
        /\ Len(ret.tags) <= ret.count
        /\ \A i, j \in 1..Len(ret.tags) : i # j => ret.tags[i] # ret.tags[j]
        /\ Range(ret.tags) \subseteq OwnTags(weakness_summary, ret.user_id)
        /\ (weak # {} /\ Cardinality(weak) < ret.count) => Range(ret.tags) = weak

\* two tags were asked for; the user has one weak tag and another row, and
\* got the weak tag alone
C29_Witness ==
    /\ ret.op = "get_suggested_tags"
    /\ ret.count = 2
    /\ Len(ret.tags) = 1
    /\ Cardinality(WeakAt07(weakness_summary, ret.user_id)) = 1
    /\ Cardinality(OwnTags(weakness_summary, ret.user_id)) = 2

(***************************************************************************)
(* C30: always 0 <= score <= total_answered, and in online mode            *)
(* total_answered never exceeds online_question_count; from an online      *)
(* session that has reached it the only steps are the one that marks the   *)
(* quiz complete and those that reset the quiz state, and none of them     *)
(* records an answer or counts one.                                        *)
(***************************************************************************)
QuotaReached(s) ==
    s.quiz_mode = "online" /\ s.total_answered >= s.online_question_count

C30_ScoreAndQuotaBounds ==
    /\ [](/\ 0 <= session.score
          /\ session.score <= session.total_answered
          /\ session.quiz_mode = "online" =>
                session.total_answered <= session.online_question_count)
    /\ [][QuotaReached(session) =>
             /\ tables' = tables
             /\ \/ session' = [session EXCEPT !.quiz_complete = TRUE]
                \/ session' = ResetQuizState(session)
                \/ /\ session'.quiz_mode # session.quiz_mode
                   /\ session'.total_answered = 0
                   /\ session'.score = 0]_vars

\* the tenth answer of an online quiz has been given and the quiz is
\* marked complete
C30_Witness ==
    /\ session.quiz_mode = "online"
    /\ session.total_answered = session.online_question_count
    /\ session.quiz_complete
    /\ session.score > 0
    /\ session.score < session.total_answered
====
